---- MODULE Spec2Model ----
(***************************************************************************)
(* Model of the caption / narration pipeline of                            *)
(* src/standalone_video_creator.py (FixedSequentialRedditVideoCreator).    *)
(*                                                                         *)
(* Times are exact integers in milliseconds (0.15 s = 150).  A text is a   *)
(* sequence of sentences, a sentence a sequence of words, and a word is    *)
(* identified by its position in the text, so that losing, repeating or    *)
(* reordering a word is visible.                                           *)
(***************************************************************************)
EXTENDS Integers, Sequences, FiniteSets, TLC

VARIABLES
    pc,                 \* position in create_single_video_part
    sentences,          \* split_and_sync_chunks: the tokenized sentences
    min_length,         \* split_and_sync_chunks: local min_length
    max_length,         \* split_and_sync_chunks: local max_length
    idx,                \* split_and_sync_chunks: sentences consumed so far
    buffer,             \* split_and_sync_chunks: local buffer (its words)
    chunks,             \* split_and_sync_chunks: local chunks
    total_parts,        \* create_single_video_part: argument total_parts
    timings,            \* generate_tts_chunks_and_durations: local timings
    t,                  \* generate_tts_chunks_and_durations: timing cursor t
    final_overlays,     \* create_single_video_part: local final_overlays
    audio_files_to_use, \* create_single_video_part: durations of the wavs, in order
    audio_start,        \* offset of each chunk's audio inside full_audio
    narration_duration, \* narration_clip.duration
    final_duration,     \* create_single_video_part: local final_duration
    bg_duration,        \* create_single_video_part: local bg_duration
    prepared_bg_duration, \* bg_clip.duration after the loop decision
    failed_chunk,       \* chunk whose wav AudioFileClip could not read (0: none)
    story,              \* split_story_for_2min_limit: argument story
    story_parts,        \* split_story_for_2min_limit: the returned parts
    load_outcome,       \* load_stories: what reading the story file does
    file_stories,       \* the stories held by the story file, sorted by score
    stories,            \* create_limited_videos: local stories
    pool_size,          \* number of videos in the background folder
    story_index,        \* create_limited_videos: idx of the story being processed
    video_counter,      \* self.video_counter
    bg_used,            \* background index used by each render so far, in order
    part_num,           \* create_story_videos: parts handed to a render so far
    created_videos,     \* create_story_videos: created_videos (part numbers)
    would_raise,        \* per part: whether rendering it raises an error
    cap_warning,        \* create_single_video_part: the over-limit warning was printed
    exported_audio,     \* durations of the chunk audio inside the exported full_audio
    exported_duration,  \* duration of the clip handed to write_videofile
    written_files,      \* the out_fn handed to write_videofile by each export so far
    temp_files,         \* temp_manager.temp_files: the registered files
    temp_folders,       \* temp_manager.temp_folders: the registered folders
    disk,               \* the temporary audio files that exist on disk
    cleanup_runs,       \* number of cleanup_all passes so far
    video_files,        \* get_video_files: the analyzed duration of each input file, in seconds
    available_videos,   \* create_mobile_shorts_no_repetition: available_videos
    video_limit,        \* create_mobile_shorts_no_repetition: video_limit
    video_num,          \* create_mobile_shorts_no_repetition: video_num
    combined_clips,     \* combine_videos_to_target_duration_no_repeat: combined_clips
    total_duration,     \* combine_videos_to_target_duration_no_repeat: total_duration
    selected,           \* the videos popped from available_videos so far, in order
    exported_clips,     \* duration of each clip written by write_videofile, in order
    input_files,        \* main: the filenames of video_files, in glob order
    probe_env,          \* what ffprobe does on each input file
    encode_env,         \* what ffmpeg does on each input file
    probe_log,          \* outcome of each ffprobe call made for each input file
    video_pool,         \* main: video_pool
    parallel_tasks,     \* main: parallel_tasks
    job_state,          \* per task: pending, running in a pool process, or returned
    job_output,         \* per started task: output_path
    job_calls,          \* per task: number of ffmpeg calls made
    results,            \* main: results, per task (None until the task returns)
    successful_results, \* main: successful_results
    now                 \* the wall clock, in seconds

segVars == <<sentences, min_length, max_length, idx, buffer, chunks>>
tlVars == <<total_parts, timings, t, final_overlays, audio_files_to_use,
            audio_start, narration_duration, final_duration>>
bgVars == <<bg_duration, prepared_bg_duration, failed_chunk>>
partVars == <<story, story_parts>>
runVars == <<load_outcome, file_stories, stories, pool_size, story_index, video_counter,
             bg_used, part_num, created_videos, would_raise>>
outVars == <<cap_warning, exported_audio, exported_duration>>
fileVars == <<written_files>>
tmpVars == <<temp_files, temp_folders, disk, cleanup_runs>>
poolVars == <<video_files, available_videos, video_limit, video_num, combined_clips, total_duration, selected, exported_clips>>
encVars == <<input_files, probe_env, encode_env, probe_log, video_pool, parallel_tasks, job_state, job_output, job_calls, results, successful_results, now>>
vars == <<pc, sentences, min_length, max_length, idx, buffer, chunks,
          total_parts, timings, t, final_overlays, audio_files_to_use,
          audio_start, narration_duration, final_duration,
          bg_duration, prepared_bg_duration, failed_chunk,
          story, story_parts,
          load_outcome, file_stories, stories, pool_size, story_index,
          video_counter, bg_used, part_num, created_videos, would_raise,
          cap_warning, exported_audio, exported_duration,
          written_files,
          temp_files, temp_folders, disk, cleanup_runs,
          video_files, available_videos, video_limit, video_num, combined_clips, total_duration, selected, exported_clips,
          input_files, probe_env, encode_env, probe_log, video_pool, parallel_tasks, job_state, job_output, job_calls, results, successful_results, now>>

----------------------------------------------------------------------------
(* Bounds of the model.                                                    *)

MaxSentences == 4
MaxPartSentences == 3
MaxBodySentences == 4
MaxFileStories == 2
MaxPool == 3
MaxTempChunks == 2
MaxVideoFiles == 3
MaxEncodeFiles == 7
MaxProbeFiles == 3
MaxClock == 1

(* Word counts of the sentences of a text (around min_length 8 and         *)
(* max_length 25: 8 + 17 = 25 is appended, 8 + 18 = 26 is flushed).        *)
SentenceLengths == {1, 7, 8, 17, 18, 26}
(* Word counts used with min_length 2 and max_length 4.                    *)
ScenarioLengths == {1, 2, 3}
(* Word counts of the sentences of a rendered part.                        *)
PartSentenceLengths == {8, 18}
(* Word counts of the sentences of a story body (the single-video limit is *)
(* 460 words: 460 * 60 / 230 = 120 s) and of "title." (1: empty title).    *)
BodyLengths == {1, 229, 230, 700}
TitleWords == {1, 3}
(* Measured durations of a synthesized chunk, in ms (0 and 50 are below    *)
(* the 100 ms caption floor; two chunks of 61 s exceed the 120 s limit).   *)
AudioDurations == {0, 50, 100, 4000, 61000}
(* Native durations of a background video, in ms.                          *)
BgDurations == {1000, 5000, 60000}
(* Analyzed durations of an input video of the no-repetition processor, in *)
(* seconds (3 is below the 5 s a pool video must exceed).                  *)
VideoDurations == {3, 100, 250}

----------------------------------------------------------------------------
(* Configuration set in __init__ and the locals of split_and_sync_chunks.  *)

MinLengthValue == 8
MaxLengthValue == 25

text_start_delay == -150
text_duration_factor == 100       \* percent: 1.0
text_transition_gap == 150
part_indicator_duration == 2000
part_indicator_silence == 2500
max_videos_per_story == 3
words_per_minute == 230
max_video_duration == 120         \* seconds
max_stories_total == 1
CaptionFloor == 100               \* max(0.1, duration)

----------------------------------------------------------------------------
(* Helpers.                                                                *)

Max(a, b) == IF a >= b THEN a ELSE b

Min(a, b) == IF a <= b THEN a ELSE b

RECURSIVE SumSeq(_)
SumSeq(s) == IF s = <<>> THEN 0 ELSE Head(s) + SumSeq(Tail(s))

RECURSIVE Flatten(_)
Flatten(ss) == IF ss = <<>> THEN <<>> ELSE Head(ss) \o Flatten(Tail(ss))

SeqsUpTo(S, n) == UNION {[1..k -> S] : k \in 1..n}

(* sent_tokenize followed by strip and the non-empty filter: the sentences *)
(* of a text whose sentences have the word counts lens; the words are      *)
(* numbered base+1, base+2, ... in text order.                             *)
RECURSIVE Tokenize(_, _)
Tokenize(lens, base) ==
    IF lens = <<>> THEN <<>>
    ELSE <<[k \in 1..Head(lens) |-> base + k]>>
         \o Tokenize(Tail(lens), base + Head(lens))

----------------------------------------------------------------------------
(* split_and_sync_chunks                                                   *)

(* Faulty variants of the loop body: a strict comparison with max_length, *)
(* a flush that forgets the buffer, a fit test that ignores the sentence,  *)
(* and a fit test made before the min_length test.                        *)
SplitIterStrictMax(buf, chs, s) ==
    LET buffer_words == Len(buf)
        sentence_words == Len(s)
    IN  IF buffer_words < min_length
        THEN [buffer |-> buf \o s, chunks |-> chs]
        ELSE IF buffer_words + sentence_words < max_length
        THEN [buffer |-> buf \o s, chunks |-> chs]
        ELSE [buffer |-> s,
              chunks |-> IF buf # <<>> THEN Append(chs, buf) ELSE chs]

SplitIterDropBuffer(buf, chs, s) ==
    LET buffer_words == Len(buf)
        sentence_words == Len(s)
    IN  IF buffer_words < min_length
        THEN [buffer |-> buf \o s, chunks |-> chs]
        ELSE IF buffer_words + sentence_words <= max_length
        THEN [buffer |-> buf \o s, chunks |-> chs]
        ELSE [buffer |-> s, chunks |-> chs]

SplitIterIgnoreSentence(buf, chs, s) ==
    LET buffer_words == Len(buf)
    IN  IF buffer_words < min_length
        THEN [buffer |-> buf \o s, chunks |-> chs]
        ELSE IF buffer_words <= max_length
        THEN [buffer |-> buf \o s, chunks |-> chs]
        ELSE [buffer |-> s,
              chunks |-> IF buf # <<>> THEN Append(chs, buf) ELSE chs]

SplitIterMaxFirst(buf, chs, s) ==
    LET buffer_words == Len(buf)
        sentence_words == Len(s)
    IN  IF buffer_words + sentence_words <= max_length
        THEN [buffer |-> buf \o s, chunks |-> chs]
        ELSE [buffer |-> s,
              chunks |-> IF buf # <<>> THEN Append(chs, buf) ELSE chs]

(* One iteration of "for s in sentences" (lines 307-318).                  *)
(* (buffer + " " + s).strip() is the words of buffer followed by those of  *)
(* s; len(x.split()) is the number of words of x.                          *)
SplitIter(buf, chs, s) ==
    LET buffer_words == Len(buf)
        sentence_words == Len(s)
    IN  IF buffer_words < min_length
        THEN [buffer |-> buf \o s, chunks |-> chs]
        ELSE IF buffer_words + sentence_words <= max_length
        THEN [buffer |-> buf \o s, chunks |-> chs]
        ELSE [buffer |-> s,
              chunks |-> IF buf # <<>> THEN Append(chs, buf) ELSE chs]

SplitFlushNone(buf, chs) == SelectSeq(chs, LAMBDA c : c # <<>>)

(* The trailing flush and the returned list (lines 320-324).               *)
SplitFlush(buf, chs) ==
    SelectSeq(IF buf # <<>> THEN Append(chs, buf) ELSE chs,
              LAMBDA c : c # <<>>)

SplitStep ==
    /\ pc = "split"
    /\ idx < Len(sentences)
    /\ LET r == SplitIter(buffer, chunks, sentences[idx + 1])
       IN  /\ buffer' = r.buffer
           /\ chunks' = r.chunks
    /\ idx' = idx + 1
    /\ UNCHANGED <<pc, sentences, min_length, max_length>>
    /\ UNCHANGED tlVars
    /\ UNCHANGED <<bgVars, partVars, runVars>>
    /\ UNCHANGED outVars
    /\ UNCHANGED fileVars
    /\ UNCHANGED tmpVars
    /\ UNCHANGED poolVars
    /\ UNCHANGED encVars

SplitReturn ==
    /\ pc = "split"
    /\ idx = Len(sentences)
    /\ chunks' = SplitFlush(buffer, chunks)
    /\ pc' = "tts"
    /\ UNCHANGED <<sentences, min_length, max_length, idx, buffer>>
    /\ UNCHANGED tlVars
    /\ UNCHANGED <<bgVars, partVars, runVars>>
    /\ UNCHANGED outVars
    /\ UNCHANGED fileVars
    /\ UNCHANGED tmpVars
    /\ UNCHANGED poolVars
    /\ UNCHANGED encVars

----------------------------------------------------------------------------
(* generate_tts_chunks_and_durations: the timing loop (lines 355-378)      *)

(* text_duration = actual_audio_duration * self.text_duration_factor       *)
TextDuration(d) == (d * text_duration_factor) \div 100

TimingAdvanceGapOnly(cursor, d) == cursor + text_transition_gap

(* t += actual_audio_duration + self.text_transition_gap                   *)
TimingAdvance(cursor, d) == cursor + d + text_transition_gap

(* One iteration of "for chunk, wav in zip(chunks, wavfiles)": the         *)
(* duration d is what AudioFileClip measures on the synthesized file.      *)
TimingStep ==
    /\ pc = "tts"
    /\ Len(timings) < Len(chunks)
    /\ \E d \in AudioDurations :
        /\ timings' = Append(timings,
                             [chunk |-> Len(timings) + 1,
                              start |-> t,
                              text_duration |-> TextDuration(d),
                              audio_duration |-> d])
        /\ t' = TimingAdvance(t, d)
    /\ UNCHANGED <<pc, total_parts, final_overlays, audio_files_to_use,
                   audio_start, narration_duration, final_duration>>
    /\ UNCHANGED segVars
    /\ UNCHANGED <<bgVars, partVars, runVars>>
    /\ UNCHANGED outVars
    /\ UNCHANGED fileVars
    /\ UNCHANGED tmpVars
    /\ UNCHANGED poolVars
    /\ UNCHANGED encVars

(* return timings; the caller goes on since overlays_info is not empty     *)
(* (a part always holds at least the title's ".", hence one chunk).        *)
TimingReturn ==
    /\ pc = "tts"
    /\ Len(timings) = Len(chunks)
    /\ timings # <<>>
    /\ pc' = "background"
    /\ UNCHANGED <<total_parts, timings, t, final_overlays, audio_files_to_use,
                   audio_start, narration_duration, final_duration>>
    /\ UNCHANGED segVars
    /\ UNCHANGED <<bgVars, partVars, runVars>>
    /\ UNCHANGED outVars
    /\ UNCHANGED fileVars
    /\ UNCHANGED tmpVars
    /\ UNCHANGED poolVars
    /\ UNCHANGED encVars

(* AudioFileClip(str(wav)) raises on a wav that was not synthesized or     *)
(* cannot be read: nothing in generate_tts_chunks_and_durations or its     *)
(* callers catches it before main, so the part is abandoned.               *)
TimingFail ==
    /\ pc = "tts"
    /\ Len(timings) < Len(chunks)
    /\ failed_chunk' = Len(timings) + 1
    /\ pc' = "raised"
    /\ UNCHANGED <<bg_duration, prepared_bg_duration>>
    /\ UNCHANGED <<segVars, tlVars, partVars, runVars>>
    /\ UNCHANGED outVars
    /\ UNCHANGED fileVars
    /\ UNCHANGED tmpVars
    /\ UNCHANGED poolVars
    /\ UNCHANGED encVars

----------------------------------------------------------------------------
(* create_single_video_part: the background clip (lines 422-434)           *)

(* total_narration_duration (lines 427-428)                                *)
TotalNarrationDuration(tms) ==
    SumSeq([i \in 1..Len(tms) |-> tms[i].audio_duration])
        + Len(tms) * text_transition_gap

(* bg_clip.duration after "if bg_duration < total_narration_duration:      *)
(* bg_clip = bg_clip.loop(duration=total_narration_duration + 10)"; the    *)
(* resize and crop that follow keep the duration.                          *)
LoopBackground(native, total_narration_duration) ==
    IF native < total_narration_duration
    THEN total_narration_duration + 10000
    ELSE native

(* bg_duration is the native duration of the background video.             *)
LoadBackground ==
    /\ pc = "background"
    /\ \E d \in BgDurations :
        /\ bg_duration' = d
        /\ prepared_bg_duration' =
               LoopBackground(d, TotalNarrationDuration(timings))
    /\ pc' = "indicator"
    /\ UNCHANGED failed_chunk
    /\ UNCHANGED <<segVars, tlVars, partVars, runVars>>
    /\ UNCHANGED outVars
    /\ UNCHANGED fileVars
    /\ UNCHANGED tmpVars
    /\ UNCHANGED poolVars
    /\ UNCHANGED encVars

----------------------------------------------------------------------------
(* create_overlay_clip (lines 380-402)                                     *)

AdjustedStartSignFlipped(start) == start - text_start_delay

(* adjusted_start = start + self.text_start_delay                          *)
AdjustedStart(start) == start + text_start_delay

AdjustedDurationNoFloor(duration) == duration

(* adjusted_duration = max(0.1, duration)                                  *)
AdjustedDuration(duration) == Max(CaptionFloor, duration)

(* The TextClip's set_start and set_duration; chunk is 0 for the part      *)
(* indicator and the chunk's position otherwise.                           *)
create_overlay_clip(chunk, duration, start) ==
    [chunk |-> chunk,
     start |-> AdjustedStart(start),
     duration |-> AdjustedDuration(duration)]

----------------------------------------------------------------------------
(* create_single_video_part: overlays and audio (lines 443-493)            *)

StartTimeNoShift(tm) == tm.start

(* start_time of a chunk's overlay (lines 462-464)                         *)
StartTime(tm) ==
    IF total_parts > 1 THEN tm.start + part_indicator_silence ELSE tm.start

(* "if total_parts > 1: final_overlays.append(part_overlay)" (447-456)     *)
PartIndicator ==
    /\ pc = "indicator"
    /\ final_overlays' =
         IF total_parts > 1
         THEN Append(final_overlays,
                     create_overlay_clip(0, part_indicator_duration, 0))
         ELSE final_overlays
    /\ pc' = "overlays"
    /\ UNCHANGED <<total_parts, timings, t, audio_files_to_use,
                   audio_start, narration_duration, final_duration>>
    /\ UNCHANGED segVars
    /\ UNCHANGED <<bgVars, partVars, runVars>>
    /\ UNCHANGED outVars
    /\ UNCHANGED fileVars
    /\ UNCHANGED tmpVars
    /\ UNCHANGED poolVars
    /\ UNCHANGED encVars

(* One iteration of "for i, t in enumerate(overlays_info)" (458-473)       *)
OverlayStep ==
    /\ pc = "overlays"
    /\ Len(audio_files_to_use) < Len(timings)
    /\ LET tm == timings[Len(audio_files_to_use) + 1]
       IN  /\ audio_files_to_use' = Append(audio_files_to_use, tm.audio_duration)
           /\ final_overlays' =
                Append(final_overlays,
                       create_overlay_clip(tm.chunk, tm.text_duration, StartTime(tm)))
    /\ UNCHANGED <<pc, total_parts, timings, t,
                   audio_start, narration_duration, final_duration>>
    /\ UNCHANGED segVars
    /\ UNCHANGED <<bgVars, partVars, runVars>>
    /\ UNCHANGED outVars
    /\ UNCHANGED fileVars
    /\ UNCHANGED tmpVars
    /\ UNCHANGED poolVars
    /\ UNCHANGED encVars

(* moviepy's concatenate_audioclips: the clips are played back to back,    *)
(* clip i starting at the summed durations of the clips before it.         *)
concatenate_audioclips(durs) ==
    [starts |-> [i \in 1..Len(durs) |-> SumSeq(SubSeq(durs, 1, i - 1))],
     duration |-> SumSeq(durs)]

(* AudioSegment.silent(duration=int(silence_duration * 1000)): 2500 ms     *)
SilenceClipDuration == part_indicator_silence

(* Lines 475-493: narration_clip, full_audio and final_duration.           *)
Compose ==
    /\ pc = "overlays"
    /\ Len(audio_files_to_use) = Len(timings)
    /\ LET narration_clip == concatenate_audioclips(audio_files_to_use)
           full_audio ==
               IF total_parts > 1
               THEN concatenate_audioclips(<<SilenceClipDuration,
                                             narration_clip.duration>>)
               ELSE [starts |-> <<0>>, duration |-> narration_clip.duration]
           narration_offset ==
               IF total_parts > 1 THEN full_audio.starts[2] ELSE 0
       IN  /\ narration_duration' = narration_clip.duration
           /\ audio_start' = [i \in 1..Len(audio_files_to_use) |->
                                 narration_offset + narration_clip.starts[i]]
           /\ final_duration' = full_audio.duration
    /\ pc' = "composed"
    /\ UNCHANGED <<total_parts, timings, t, final_overlays, audio_files_to_use>>
    /\ UNCHANGED segVars
    /\ UNCHANGED <<bgVars, partVars, runVars>>
    /\ UNCHANGED outVars
    /\ UNCHANGED fileVars
    /\ UNCHANGED tmpVars
    /\ UNCHANGED poolVars
    /\ UNCHANGED encVars

----------------------------------------------------------------------------
(* create_single_video_part: limit check and export (lines 495-519)        *)

(* final_duration > self.max_video_duration, the limit being in seconds    *)
ExceedsLimit(duration) == duration > max_video_duration * 1000

(* moviepy's CompositeVideoClip(all_clips).duration: the latest end of its *)
(* clips, the background lasting from 0 to final_duration and an overlay   *)
(* from its start to start + duration.                                     *)
CompositeDuration(background_end, overlays) ==
    LET ends == {background_end}
                \cup {overlays[k].start + overlays[k].duration :
                          k \in 1..Len(overlays)}
    IN  CHOOSE e \in ends : \A f \in ends : f <= e

(* Lines 495-519: the warning is only printed; all_clips, final and        *)
(* write_videofile follow in either case.                                  *)
Export ==
    /\ pc = "composed"
    /\ cap_warning' = ExceedsLimit(final_duration)
    /\ exported_audio' = audio_files_to_use
    /\ exported_duration' = CompositeDuration(final_duration, final_overlays)
    /\ pc' = "exported"
    /\ UNCHANGED <<segVars, tlVars, bgVars, partVars, runVars>>
    /\ UNCHANGED fileVars
    /\ UNCHANGED tmpVars
    /\ UNCHANGED poolVars
    /\ UNCHANGED encVars

----------------------------------------------------------------------------
(* split_story_for_2min_limit (lines 250-296)                              *)
(* A story is the word count of "title." and the word counts of the        *)
(* sentences of its body; a sentence is named by its position in the body. *)
(* Durations are compared exactly: words * 60 / wpm <= max is              *)
(* words * 60 <= max * wpm.                                                *)

(* total_words = len(full_script.split()), full_script = "title. content"  *)
TotalWords(st) == st.title_words + SumSeq(st.body)

(* estimated_duration <= self.max_video_duration                           *)
FitsSingleVideo(words) ==
    words * 60 <= max_video_duration * words_per_minute

(* ideal_parts = int(estimated_duration / self.max_video_duration) + 1     *)
IdealParts(words) ==
    ((words * 60) \div (max_video_duration * words_per_minute)) + 1

(* actual_parts = min(ideal_parts, self.max_videos_per_story)              *)
ActualParts(words) == Min(IdealParts(words), max_videos_per_story)

PartSentencesNoRemainder(n, actual_parts, k) ==
    LET sentences_per_part == n \div actual_parts
    IN  [j \in 1..sentences_per_part |-> k * sentences_per_part + j]

(* The slice of body sentences of part k, counted from 0 (lines 277-285):  *)
(* the last part gets the remaining sentences.                             *)
PartSentences(n, actual_parts, k) ==
    LET sentences_per_part == n \div actual_parts
        first == k * sentences_per_part
        last == IF k = actual_parts - 1 THEN n ELSE (k + 1) * sentences_per_part
    IN  [j \in 1..(last - first) |-> first + j]

PartContentFullScript(st, ids) ==
    [sentences |-> ids,
     words |-> TotalWords(st) + SumSeq([j \in 1..Len(ids) |-> st.body[ids[j]]])]

(* part_content = f"{title}. " + " ".join(part_sentences) (line 287)       *)
PartContent(st, ids) ==
    [sentences |-> ids,
     words |-> st.title_words + SumSeq([j \in 1..Len(ids) |-> st.body[ids[j]]])]

KeepPartWithSentences(part) == part.sentences # <<>>

(* if part_content.strip(): the text holds at least the title's "."        *)
KeepPart(part) == part.words > 0

split_story_for_2min_limit(st) ==
    LET total_words == TotalWords(st)
        n == Len(st.body)
        actual_parts == ActualParts(total_words)
    IN  IF FitsSingleVideo(total_words)
        THEN <<PartContent(st, [j \in 1..n |-> j])>>
        ELSE SelectSeq([k \in 1..actual_parts |->
                           PartContent(st, PartSentences(n, actual_parts, k - 1))],
                       KeepPart)

SplitStory ==
    /\ pc = "partition"
    /\ story_parts' = split_story_for_2min_limit(story)
    /\ pc' = "partitioned"
    /\ UNCHANGED <<story, segVars, tlVars, bgVars, runVars>>
    /\ UNCHANGED outVars
    /\ UNCHANGED fileVars
    /\ UNCHANGED tmpVars
    /\ UNCHANGED poolVars
    /\ UNCHANGED encVars

----------------------------------------------------------------------------
(* generate_smart_filename (lines 219-248)                                 *)
(* A text is the sequence of its characters.                               *)

Letters ==
    {"a", "b", "c", "d", "e", "f", "g", "h", "i", "j", "k", "l", "m",
     "n", "o", "p", "q", "r", "s", "t", "u", "v", "w", "x", "y", "z"}

Digits == <<"0", "1", "2", "3", "4", "5", "6", "7", "8", "9">>

(* \w of the regular expressions, on a lower-cased text                    *)
IsWordChar(c) == c \in Letters \/ c = "_" \/ \E d \in 1..10 : Digits[d] = c

(* str.lower(), for the capitals that occur in the titles                  *)
LowerChar(c) ==
    CASE c = "A" -> "a"
      [] c = "I" -> "i"
      [] c = "M" -> "m"
      [] c = "T" -> "t"
      [] OTHER -> c

Lower(s) == [i \in 1..Len(s) |-> LowerChar(s[i])]

(* str.strip()                                                             *)
RECURSIVE Strip(_)
Strip(s) ==
    IF s = <<>> THEN s
    ELSE IF Head(s) = " " THEN Strip(Tail(s))
    ELSE IF s[Len(s)] = " " THEN Strip(SubSeq(s, 1, Len(s) - 1))
    ELSE s

StartsWith(s, prefix) ==
    Len(s) >= Len(prefix) /\ SubSeq(s, 1, Len(prefix)) = prefix

(* s[:n]                                                                   *)
Take(s, n) == SubSeq(s, 1, Min(n, Len(s)))

prefixes_to_remove ==
    << <<"a", "i", "t", "a", " ", "f", "o", "r">>,
       <<"a", "i", "t", "a">>,
       <<"t", "i", "f", "u", " ", "b", "y">>,
       <<"t", "i", "f", "u">>,
       <<"m", "y">>,
       <<"i">>,
       <<"a">>,
       <<"a", "n">>,
       <<"t", "h", "e">> >>

(* "for prefix in prefixes_to_remove: if title.startswith(prefix):         *)
(* title = title[len(prefix):].strip()", from prefix number k on           *)
RECURSIVE RemovePrefixes(_, _)
RemovePrefixes(title, k) ==
    IF k > Len(prefixes_to_remove) THEN title
    ELSE LET prefix == prefixes_to_remove[k]
         IN  IF StartsWith(title, prefix)
             THEN RemovePrefixes(
                      Strip(SubSeq(title, Len(prefix) + 1, Len(title))), k + 1)
             ELSE RemovePrefixes(title, k + 1)

(* re.findall(r'\b[a-zA-Z]+\b', title): the runs of letters that have no   *)
(* word character (letter, digit, underscore) next to them.                *)
FindWords(s) ==
    LET IsStart(i) ==
            /\ s[i] \in Letters
            /\ i = 1 \/ ~IsWordChar(s[i - 1])
        RunEnd(i) ==
            CHOOSE j \in i..Len(s) :
                /\ \A k \in i..j : s[k] \in Letters
                /\ j = Len(s) \/ s[j + 1] \notin Letters
        IsWord(i) ==
            IsStart(i) /\ (RunEnd(i) = Len(s) \/ ~IsWordChar(s[RunEnd(i) + 1]))
        starts == SelectSeq([i \in 1..Len(s) |-> i], IsWord)
    IN  [n \in 1..Len(starts) |-> SubSeq(s, starts[n], RunEnd(starts[n]))]

stop_words ==
    {<<"i">>, <<"m", "e">>, <<"m", "y">>, <<"w", "e">>, <<"y", "o", "u">>,
     <<"h", "e">>, <<"s", "h", "e">>, <<"i", "t">>, <<"t", "h", "e", "y">>,
     <<"t", "h", "e">>, <<"a", "n", "d">>, <<"b", "u", "t">>, <<"o", "r">>,
     <<"f", "o", "r">>, <<"w", "i", "t", "h">>, <<"t", "o">>}

(* meaningful_words and its fallback (lines 233-236)                       *)
MeaningfulWords(words) ==
    LET IsMeaningful(w) == w \notin stop_words /\ Len(w) > 2
        IsLong(w) == Len(w) > 2
        meaningful_words == SelectSeq(words, IsMeaningful)
    IN  IF Len(meaningful_words) < 3
        THEN Take(SelectSeq(words, IsLong), 4)
        ELSE meaningful_words

(* "_".join(words)                                                         *)
RECURSIVE Join(_)
Join(words) ==
    IF words = <<>> THEN <<>>
    ELSE IF Len(words) = 1 THEN Head(words)
    ELSE Head(words) \o <<"_">> \o Join(Tail(words))

(* re.sub(r'[^\w\-_]', '', filename_base)                                  *)
Sanitize(s) ==
    LET Kept(c) == IsWordChar(c) \/ c = "-"
    IN  SelectSeq(s, Kept)

(* filename_base (lines 221-243)                                           *)
FilenameBase(story_title) ==
    LET title == RemovePrefixes(Strip(Lower(story_title)), 1)
        selected_words == Take(MeaningfulWords(FindWords(title)), 4)
    IN  Take(Sanitize(Join(Take(selected_words, 4))), 40)

(* The decimal digits of a natural number                                  *)
RECURSIVE Decimal(_)
Decimal(n) ==
    IF n < 10 THEN <<Digits[n + 1]>>
    ELSE Decimal(n \div 10) \o <<Digits[(n % 10) + 1]>>

(* f"{n:0{width}d}": zero-padded on the left up to width                    *)
RECURSIVE ZeroPad(_, _)
ZeroPad(digits, width) ==
    IF Len(digits) >= width THEN digits ELSE ZeroPad(<<"0">> \o digits, width)

generate_smart_filenameNoPart(story_title, story_idx, part_number, parts) ==
    FilenameBase(story_title) \o <<"_">> \o ZeroPad(Decimal(story_idx), 3)

(* Lines 245-248: the two f-strings                                        *)
generate_smart_filename(story_title, story_idx, part_number, parts) ==
    IF parts > 1
    THEN FilenameBase(story_title) \o <<"_">> \o ZeroPad(Decimal(story_idx), 3)
             \o <<"_", "p", "a", "r", "t", "_">>
             \o ZeroPad(Decimal(part_number), 2)
    ELSE FilenameBase(story_title) \o <<"_">> \o ZeroPad(Decimal(story_idx), 3)

(* out_fn = self.output_path / f"{smart_filename}.mp4", inside the batch   *)
(* folder of the run (lines 122, 508)                                      *)
OutputFile(smart_filename) == smart_filename \o <<".", "m", "p", "4">>

----------------------------------------------------------------------------
(* TempFileManager and the temporary audio files (lines 72-109, 123-128,   *)
(* 344-353, 480-486, 521-535)                                              *)

(* self.temp_path = Path("temp_sequential"), registered as a temp folder   *)
temp_path == "temp_sequential"

(* chunk_path of chunk i: the time stamp in the name differs from one      *)
(* part to the next, the parts being rendered one after the other.         *)
ChunkPaths(story_idx, part_number, n) ==
    {[folder |-> temp_path, name |-> <<"tts_chunk", story_idx, part_number, i>>] :
        i \in 1..n}

(* temp_silence_path                                                       *)
SilencePath(story_idx, part_number) ==
    [folder |-> temp_path, name |-> <<"silence", story_idx, part_number>>]

cleanup_allFilesOnly(files, folders, on_disk) ==
    {f \in on_disk : f \notin files}

(* cleanup_all: what is left on disk once every registered file is         *)
(* unlinked and every registered folder removed with all it holds.         *)
cleanup_all(files, folders, on_disk) ==
    {f \in on_disk : f \notin files /\ f.folder \notin folders}

(* "for clip in overlay_audio_clips: os.remove(clip.filename)": the wavs   *)
(* of the chunks of the part just exported                                 *)
RemoveChunkAudio(on_disk, story_idx, part_number) ==
    {f \in on_disk :
        ~(f.name[1] = "tts_chunk" /\ f.name[2] = story_idx
            /\ f.name[3] = part_number)}

(* A call of temp_manager.cleanup_all()                                    *)
CleanupPass ==
    /\ disk' = cleanup_all(temp_files, temp_folders, disk)
    /\ cleanup_runs' = cleanup_runs + 1
    /\ UNCHANGED <<temp_files, temp_folders>>

----------------------------------------------------------------------------
(* The run: main, create_limited_videos, create_story_videos and the part  *)
(* of create_single_video_part that acts on the creator's own state.       *)

load_storiesIgnoreSuffix(outcome, in_file) ==
    IF outcome \in {"ok", "bad_suffix"} THEN in_file ELSE <<>>

(* load_stories (lines 169-201): the sorted stories, or [] after any error *)
(* (missing or unreadable file, unrecognized suffix).                      *)
load_stories(outcome, in_file) ==
    IF outcome = "ok" THEN in_file ELSE <<>>

(* num_stories = min(len(stories), self.max_stories_total)                 *)
NumStories == Min(Len(stories), max_stories_total)

CycleIndex(counter, n) == counter % n

NextCounterStuck(counter) == counter

(* self.video_counter += 1                                                 *)
NextCounter(counter) == counter + 1

(* stories = self.load_stories(); "if not stories: return" (582-585)       *)
LoadStories ==
    /\ pc = "run_load"
    /\ stories' = load_stories(load_outcome, file_stories)
    /\ pc' = IF stories' = <<>> THEN "run_done" ELSE "run_backgrounds"
    /\ UNCHANGED <<load_outcome, file_stories, pool_size, story_index,
                   video_counter, bg_used, part_num, created_videos, would_raise>>
    /\ UNCHANGED <<segVars, tlVars, bgVars, partVars>>
    /\ UNCHANGED outVars
    /\ UNCHANGED fileVars
    /\ UNCHANGED tmpVars
    /\ UNCHANGED poolVars
    /\ UNCHANGED encVars

(* get_background_videos (203-210): SystemExit on an empty folder; main    *)
(* does not catch it and the process exits.                                *)
GetBackgroundVideos ==
    /\ pc = "run_backgrounds"
    /\ pc' = IF pool_size = 0 THEN "run_exit" ELSE "run_story"
    /\ UNCHANGED <<segVars, tlVars, bgVars, partVars, runVars>>
    /\ UNCHANGED outVars
    /\ UNCHANGED fileVars
    /\ UNCHANGED tmpVars
    /\ UNCHANGED poolVars
    /\ UNCHANGED encVars

(* The next iteration of "for idx, story in enumerate(selected_stories)"   *)
(* and the start of create_story_videos (540-559).                         *)
BeginStory ==
    /\ pc = "run_story"
    /\ story_index < NumStories
    /\ story_index' = story_index + 1
    /\ story' = stories[story_index + 1]
    /\ story_parts' = split_story_for_2min_limit(stories[story_index + 1])
    /\ part_num' = 0
    /\ pc' = "run_part"
    /\ UNCHANGED <<load_outcome, file_stories, stories, pool_size,
                   video_counter, bg_used, created_videos, would_raise>>
    /\ UNCHANGED <<segVars, tlVars, bgVars>>
    /\ UNCHANGED outVars
    /\ UNCHANGED fileVars
    /\ UNCHANGED tmpVars
    /\ UNCHANGED poolVars
    /\ UNCHANGED encVars

(* The next iteration of "for part_num, story_part in enumerate(...)" and  *)
(* the entry of create_single_video_part up to cycle_background_video      *)
(* (561-563, 407-411, 212-217).                                            *)
BeginPart ==
    /\ pc = "run_part"
    /\ part_num < Len(story_parts)
    /\ part_num' = part_num + 1
    /\ bg_used' = Append(bg_used, CycleIndex(video_counter, pool_size))
    /\ video_counter' = NextCounter(video_counter)
    /\ pc' = "run_render"
    /\ UNCHANGED <<load_outcome, file_stories, stories, pool_size, story_index,
                   created_videos, would_raise>>
    /\ UNCHANGED <<segVars, tlVars, bgVars, partVars>>
    /\ UNCHANGED outVars
    /\ UNCHANGED fileVars
    /\ UNCHANGED tmpVars
    /\ UNCHANGED poolVars
    /\ UNCHANGED encVars

(* The rest of create_single_video_part returns the output file and        *)
(* create_story_videos records it (lines 413-538, 564-566): the chunk wavs *)
(* are registered, written and removed again, the silence file of a        *)
(* multi-part video is written and registered.                             *)
RenderPart ==
    /\ pc = "run_render"
    /\ ~would_raise[<<story_index, part_num>>]
    /\ written_files' =
         Append(written_files,
                OutputFile(generate_smart_filename(Take(story.title, 120),
                                                   story_index, part_num,
                                                   Len(story_parts))))
    /\ created_videos' = Append(created_videos, <<story_index, part_num>>)
    /\ pc' = "run_part"
    /\ UNCHANGED <<load_outcome, file_stories, stories, pool_size, story_index,
                   video_counter, bg_used, part_num, would_raise>>
    /\ UNCHANGED <<segVars, tlVars, bgVars, partVars>>
    /\ UNCHANGED outVars
    /\ \E n \in 1..MaxTempChunks :
        temp_files' = temp_files \cup ChunkPaths(story_index, part_num, n)
                        \cup (IF Len(story_parts) > 1
                              THEN {SilencePath(story_index, part_num)}
                              ELSE {})
    /\ disk' = disk \cup (IF Len(story_parts) > 1
                          THEN {SilencePath(story_index, part_num)}
                          ELSE {})
    /\ UNCHANGED <<temp_folders, cleanup_runs>>
    /\ UNCHANGED poolVars
    /\ UNCHANGED encVars

(* An error raised in synthesis, composition or export: nothing catches it *)
(* in create_single_video_part, create_story_videos or                     *)
(* create_limited_videos; main's "except Exception" prints it, calls       *)
(* cleanup_all and the run is over (lines 678-682).                        *)
RenderRaise ==
    /\ pc = "run_render"
    /\ would_raise[<<story_index, part_num>>]
    /\ pc' = "run_aborted"
    /\ UNCHANGED <<segVars, tlVars, bgVars, partVars, runVars>>
    /\ UNCHANGED outVars
    /\ UNCHANGED fileVars
    /\ CleanupPass
    /\ UNCHANGED poolVars
    /\ UNCHANGED encVars

(* create_story_videos returns; all_videos.extend(story_videos)            *)
EndStory ==
    /\ pc = "run_part"
    /\ part_num = Len(story_parts)
    /\ pc' = "run_story"
    /\ UNCHANGED <<segVars, tlVars, bgVars, partVars, runVars>>
    /\ UNCHANGED outVars
    /\ UNCHANGED fileVars
    /\ UNCHANGED tmpVars
    /\ UNCHANGED poolVars
    /\ UNCHANGED encVars

(* The story loop is over: cleanup and summary (lines 611-661).            *)
EndRun ==
    /\ pc = "run_story"
    /\ story_index = NumStories
    /\ pc' = "run_done"
    /\ UNCHANGED <<segVars, tlVars, bgVars, partVars, runVars>>
    /\ UNCHANGED outVars
    /\ UNCHANGED fileVars
    /\ CleanupPass
    /\ UNCHANGED poolVars
    /\ UNCHANGED encVars

----------------------------------------------------------------------------
(* The temporary audio files of a part render, step by step, and the ways  *)
(* a run ends.                                                             *)

(* generate_tts_chunks_and_durations, lines 344-353: every chunk path is   *)
(* registered, then engine.runAndWait() writes the wavs.                   *)
SynthesizeChunks ==
    /\ pc = "run_render"
    /\ \E n \in 1..MaxTempChunks :
        /\ temp_files' = temp_files \cup ChunkPaths(story_index, part_num, n)
        /\ disk' = disk \cup ChunkPaths(story_index, part_num, n)
    /\ pc' = IF Len(story_parts) > 1 THEN "run_silence" ELSE "run_export"
    /\ UNCHANGED <<temp_folders, cleanup_runs>>
    /\ UNCHANGED <<segVars, tlVars, bgVars, partVars, runVars, outVars, fileVars>>
    /\ UNCHANGED poolVars
    /\ UNCHANGED encVars

(* silence_audio.export(str(temp_silence_path), format="wav") (line 485)   *)
ExportSilence ==
    /\ pc = "run_silence"
    /\ disk' = disk \cup {SilencePath(story_index, part_num)}
    /\ pc' = "run_register"
    /\ UNCHANGED <<temp_files, temp_folders, cleanup_runs>>
    /\ UNCHANGED <<segVars, tlVars, bgVars, partVars, runVars, outVars, fileVars>>
    /\ UNCHANGED poolVars
    /\ UNCHANGED encVars

(* temp_manager.register_temp_file(temp_silence_path) (line 486)           *)
RegisterSilence ==
    /\ pc = "run_register"
    /\ temp_files' = temp_files \cup {SilencePath(story_index, part_num)}
    /\ pc' = "run_export"
    /\ UNCHANGED <<temp_folders, disk, cleanup_runs>>
    /\ UNCHANGED <<segVars, tlVars, bgVars, partVars, runVars, outVars, fileVars>>
    /\ UNCHANGED poolVars
    /\ UNCHANGED encVars

(* write_videofile, the removal of the chunk wavs and the return to        *)
(* create_story_videos (lines 506-538, 564-566)                            *)
ExportPart ==
    /\ pc = "run_export"
    /\ ~would_raise[<<story_index, part_num>>]
    /\ written_files' =
         Append(written_files,
                OutputFile(generate_smart_filename(Take(story.title, 120),
                                                   story_index, part_num,
                                                   Len(story_parts))))
    /\ created_videos' = Append(created_videos, <<story_index, part_num>>)
    /\ disk' = RemoveChunkAudio(disk, story_index, part_num)
    /\ pc' = "run_part"
    /\ UNCHANGED <<temp_files, temp_folders, cleanup_runs>>
    /\ UNCHANGED <<load_outcome, file_stories, stories, pool_size, story_index,
                   video_counter, bg_used, part_num, would_raise>>
    /\ UNCHANGED <<segVars, tlVars, bgVars, partVars, outVars>>
    /\ UNCHANGED poolVars
    /\ UNCHANGED encVars

(* An error raised after the synthesis: main's "except Exception" calls    *)
(* cleanup_all (lines 678-680).                                            *)
RenderRaiseLate ==
    /\ pc \in {"run_silence", "run_register", "run_export"}
    /\ would_raise[<<story_index, part_num>>]
    /\ CleanupPass
    /\ pc' = "run_aborted"
    /\ UNCHANGED <<segVars, tlVars, bgVars, partVars, runVars, outVars, fileVars>>
    /\ UNCHANGED poolVars
    /\ UNCHANGED encVars

Running ==
    pc \in {"run_load", "run_backgrounds", "run_story", "run_part",
            "run_render", "run_silence", "run_register", "run_export"}

(* KeyboardInterrupt anywhere in create_limited_videos: main's handler     *)
(* calls cleanup_all (lines 675-677).                                      *)
Interrupt ==
    /\ Running
    /\ CleanupPass
    /\ pc' = "run_interrupted"
    /\ UNCHANGED <<segVars, tlVars, bgVars, partVars, runVars, outVars, fileVars>>
    /\ UNCHANGED poolVars
    /\ UNCHANGED encVars

MainReturned ==
    pc \in {"run_done", "run_aborted", "run_exit", "run_interrupted"}

(* The interpreter exits and runs the handler registered with              *)
(* atexit.register(self.cleanup_all) (line 76).                            *)
AtExit ==
    /\ MainReturned
    /\ CleanupPass
    /\ pc' = "exited"
    /\ UNCHANGED <<segVars, tlVars, bgVars, partVars, runVars, outVars, fileVars>>
    /\ UNCHANGED poolVars
    /\ UNCHANGED encVars

----------------------------------------------------------------------------
(* src/background_video_processor.py: the no-repetition processor          *)
(* (MobileYoutubeShortsProcessorNoRepetition).  Durations are in seconds;  *)
(* a video is its position in video_files and its analyzed duration.       *)

NUMBER_OF_VIDEOS == 0
VIDEO_DURATION_MINUTES == 3
MinPoolDuration == 5              \* if duration > 5
MinCombinedDuration == 60         \* if total_duration < 60

(* target_duration_seconds = VIDEO_DURATION_MINUTES * 60 (main, line 496)  *)
target_duration == VIDEO_DURATION_MINUTES * 60

target_count == NUMBER_OF_VIDEOS

(* video_pool (lines 381-394): the files whose duration exceeds 5 s        *)
VideoPool(files) ==
    SelectSeq([i \in 1..Len(files) |-> [path |-> i, duration |-> files[i]]],
              LAMBDA v : v.duration > MinPoolDuration)

(* video_limit (lines 402-408)                                             *)
VideoLimit(pool) ==
    IF target_count = 0
    THEN SumSeq([i \in 1..Len(pool) |-> pool[i].duration]) \div target_duration
    ELSE target_count

(* The orders random.shuffle can leave a list in                           *)
Shuffles(videos) ==
    {[i \in 1..Len(videos) |-> videos[p[i]]] :
        p \in Permutations(1..Len(videos))}

PopKeepsVideo(videos) == videos

(* available_videos after available_videos.pop(0)                         *)
Pop(videos) == Tail(videos)

(* create_mobile_shorts_no_repetition up to the loop (lines 372-408)       *)
AnalyzePool ==
    /\ pc = "pool_analyze"
    /\ available_videos' = VideoPool(video_files)
    /\ video_limit' = VideoLimit(VideoPool(video_files))
    /\ pc' = IF video_files = <<>> THEN "pool_done" ELSE "pool_next"
    /\ UNCHANGED <<video_files, video_num, combined_clips, total_duration,
                   selected, exported_clips>>
    /\ UNCHANGED <<segVars, tlVars, bgVars, partVars, runVars, outVars,
                   fileVars, tmpVars>>
    /\ UNCHANGED encVars

(* The next iteration of "for video_num in range(1, video_limit + 1)" up   *)
(* to the shuffle in combine_videos_to_target_duration_no_repeat           *)
(* (lines 410-419, 293-301); the loop ends after video_limit iterations or *)
(* at the break on an empty pool.                                          *)
BeginCombine ==
    /\ pc = "pool_next"
    /\ IF video_num < video_limit /\ available_videos # <<>>
       THEN /\ video_num' = video_num + 1
            /\ available_videos' \in Shuffles(available_videos)
            /\ combined_clips' = <<>>
            /\ total_duration' = 0
            /\ pc' = "pool_select"
       ELSE /\ pc' = "pool_done"
            /\ UNCHANGED <<available_videos, video_num, combined_clips,
                           total_duration>>
    /\ UNCHANGED <<video_files, video_limit, selected, exported_clips>>
    /\ UNCHANGED <<segVars, tlVars, bgVars, partVars, runVars, outVars,
                   fileVars, tmpVars>>
    /\ UNCHANGED encVars

(* What loading and validating a popped video does: it is used, rejected   *)
(* by validate_clip, raises an error, or its segment is rejected.          *)
SelectOutcomes == {"ok", "invalid", "error", "bad_segment"}

(* One iteration of the while loop (lines 303-341)                         *)
SelectVideo ==
    /\ pc = "pool_select"
    /\ total_duration < target_duration
    /\ available_videos # <<>>
    /\ LET video == Head(available_videos)
           remaining_duration == target_duration - total_duration
       IN  /\ available_videos' = Pop(available_videos)
           /\ selected' = Append(selected, video.path)
           /\ \E outcome \in SelectOutcomes :
               IF outcome \in {"invalid", "error"}
               THEN /\ UNCHANGED <<combined_clips, total_duration, pc>>
               ELSE IF video.duration <= remaining_duration
               THEN /\ outcome = "ok"
                    /\ combined_clips' = Append(combined_clips, video.duration)
                    /\ total_duration' = total_duration + video.duration
                    /\ UNCHANGED pc
               ELSE /\ IF outcome = "ok"
                       THEN /\ combined_clips' =
                                   Append(combined_clips, remaining_duration)
                            /\ total_duration' =
                                   total_duration + remaining_duration
                       ELSE UNCHANGED <<combined_clips, total_duration>>
                    /\ pc' = "pool_combined"
    /\ UNCHANGED <<video_files, video_limit, video_num, exported_clips>>
    /\ UNCHANGED <<segVars, tlVars, bgVars, partVars, runVars, outVars,
                   fileVars, tmpVars>>
    /\ UNCHANGED encVars

(* The while condition fails: the target is reached or the pool is empty.  *)
SelectDone ==
    /\ pc = "pool_select"
    /\ ~(total_duration < target_duration /\ available_videos # <<>>)
    /\ pc' = "pool_combined"
    /\ UNCHANGED poolVars
    /\ UNCHANGED <<segVars, tlVars, bgVars, partVars, runVars, outVars,
                   fileVars, tmpVars>>
    /\ UNCHANGED encVars

(* moviepy's concatenate_videoclips: the clips one after the other         *)
concatenate_videoclips(clips) == SumSeq(clips)

(* The end of the combination and the export (lines 343-369, 422-470):     *)
(* nothing is exported without clips, below 60 s, or when combining,       *)
(* cropping or writing fails.                                              *)
ExportCombined ==
    /\ pc = "pool_combined"
    /\ \E failed \in BOOLEAN :
        exported_clips' =
            IF combined_clips = <<>> \/ total_duration < MinCombinedDuration
               \/ failed
            THEN exported_clips
            ELSE Append(exported_clips, concatenate_videoclips(combined_clips))
    /\ pc' = "pool_next"
    /\ UNCHANGED <<video_files, available_videos, video_limit, video_num,
                   combined_clips, total_duration, selected>>
    /\ UNCHANGED <<segVars, tlVars, bgVars, partVars, runVars, outVars,
                   fileVars, tmpVars>>
    /\ UNCHANGED encVars

----------------------------------------------------------------------------
(* src/mobile_youtube_shorts_processor_OPTIMIZED.py: the parallel encode   *)
(* variant.  An input file is its position in video_files; processes of    *)
(* the multiprocessing pool run process_video_full_path_ffmpeg on the      *)
(* tasks.                                                                   *)

MIN_VIDEOS_TO_CREATE == 10
PoolProcesses == 6                \* Pool(processes=min(6, ...))
MinSuitableDuration == 30         \* if duration >= 30

(* The filename of input file i: the names of a folder are distinct.  With *)
(* "same_prefix" all names share their first 15 characters, with "short"   *)
(* they differ in them, "mixed" alternates and adds characters that        *)
(* clean_name drops.                                                       *)
NamePatterns == {"same_prefix", "short", "mixed"}

FileNameAt(pattern, i) ==
    LET long == <<"c", "l", "i", "p", "_", "o", "f", "_", "t", "h", "e", "_", "d", "a", "y", "_">> \o Decimal(i) \o <<".", "m", "p", "4">>
        short == <<"v">> \o Decimal(i) \o <<".", "m", "k", "v">>
        spaced == <<"m", "y", " ", "c", "l", "i", "p", "-">> \o Decimal(i) \o <<".", "f", "i", "n", "a", "l", ".", "m", "p", "4">>
    IN  CASE pattern = "same_prefix" -> long
          [] pattern = "short" -> short
          [] OTHER -> IF i % 2 = 1 THEN long ELSE spaced

(* What the analysis meets on a file: a file it cannot read, or an ffprobe *)
(* call that gives a duration of 200 s or 20 s, times out, returns a       *)
(* non-zero code, or prints what json.loads rejects, followed by a         *)
(* fallback call that answers or times out.                                *)
ProbeOutcomes ==
    {"unreadable", "ok_long", "ok_short", "timeout", "error", "parse_ok",
     "parse_timeout"}

(* The ffprobe calls analyze_video_duration_full_path makes (lines 67-106) *)
ProbeCalls(outcome) ==
    CASE outcome \in {"ok_long", "ok_short"} -> <<"ok">>
      [] outcome = "timeout" -> <<"timeout">>
      [] outcome = "error" -> <<"error">>
      [] outcome = "parse_ok" -> <<"parse_error", "ok">>
      [] OTHER -> <<"parse_error", "timeout">>

ProbeDurationIgnoresTimeout(outcome) ==
    IF outcome = "ok_short" THEN 20 ELSE 200

(* The duration analyze_video_duration_full_path returns: 0 after a        *)
(* timeout or an error                                                     *)
ProbeDuration(outcome) ==
    CASE outcome \in {"ok_long", "parse_ok"} -> 200
      [] outcome = "ok_short" -> 20
      [] OTHER -> 0

EncodeOutcomes == {"ok", "error", "timeout"}

(* Python's None as a job's return value                                   *)
None == [none |-> TRUE]

(* video_filename.split('.')[0][:15], keeping c.isalnum() or c == '_'      *)
CleanName(video_filename) ==
    LET dot == IF \E i \in 1..Len(video_filename) : video_filename[i] = "."
               THEN CHOOSE i \in 1..Len(video_filename) :
                        /\ video_filename[i] = "."
                        /\ \A j \in 1..(i - 1) : video_filename[j] # "."
               ELSE Len(video_filename) + 1
        stem == SubSeq(video_filename, 1, dot - 1)
    IN  SelectSeq(Take(stem, 15), IsWordChar)

(* datetime.now().strftime("%Y%m%d_%H%M%S") at clock second sec           *)
Timestamp(sec) == <<"2", "0", "2", "5", "0", "1", "0", "1", "_", "0", "0", "0", "0">> \o ZeroPad(Decimal(sec), 2)

OutputFilenameNoWorker(worker_id, video_filename, sec) ==
    <<"m", "o", "b", "i", "l", "e", "_">> \o CleanName(video_filename) \o <<"_">> \o Timestamp(sec)
        \o <<".", "m", "p", "4">>

(* output_filename (line 122)                                              *)
OutputFilename(worker_id, video_filename, sec) ==
    <<"m", "o", "b", "i", "l", "e", "_">> \o ZeroPad(Decimal(worker_id), 2) \o <<"_">>
        \o CleanName(video_filename) \o <<"_">> \o Timestamp(sec)
        \o <<".", "m", "p", "4">>

(* selected_videos (lines 274-278)                                         *)
SelectedVideos(pool) ==
    LET target_videos == Min(Len(pool), MIN_VIDEOS_TO_CREATE)
    IN  IF Len(pool) > target_videos
        THEN {[k \in 1..target_videos |-> pool[p[k]]] :
                 p \in {q \in [1..target_videos -> 1..Len(pool)] :
                           \A a, b \in 1..target_videos : a # b => q[a] # q[b]}}
        ELSE {pool}

(* processes of the pool (line 293)                                        *)
Processes == Min(PoolProcesses, Len(parallel_tasks))

RunningJobs == {k \in 1..Len(parallel_tasks) : job_state[k] = "running"}

(* One iteration of "for video_file in video_files" (lines 236-259)        *)
AnalyzeVideo ==
    /\ pc = "enc_analyze"
    /\ Len(probe_log) < Len(input_files)
    /\ LET i == Len(probe_log) + 1
           duration == ProbeDuration(probe_env[i])
       IN  IF probe_env[i] = "unreadable"
           THEN /\ probe_log' = Append(probe_log, <<>>)
                /\ UNCHANGED video_pool
           ELSE /\ probe_log' = Append(probe_log, ProbeCalls(probe_env[i]))
                /\ video_pool' =
                     IF duration >= MinSuitableDuration
                     THEN Append(video_pool,
                                 [file |-> i,
                                  path |-> <<"input", input_files[i]>>,
                                  duration |-> duration,
                                  filename |-> input_files[i]])
                     ELSE video_pool
    /\ UNCHANGED <<pc, input_files, probe_env, encode_env, parallel_tasks,
                   job_state, job_output, job_calls, results,
                   successful_results, now>>
    /\ UNCHANGED <<segVars, tlVars, bgVars, partVars, runVars, outVars,
                   fileVars, tmpVars, poolVars>>

(* Lines 261-293: main returns without a suitable video, else the tasks    *)
(* are numbered from 1 and handed to the pool.                             *)
PrepareTasks ==
    /\ pc = "enc_analyze"
    /\ Len(probe_log) = Len(input_files)
    /\ IF video_pool = <<>>
       THEN /\ pc' = "enc_done"
            /\ UNCHANGED <<parallel_tasks, job_state, job_output, job_calls,
                           results>>
       ELSE /\ \E selected_videos \in SelectedVideos(video_pool) :
                parallel_tasks' =
                    [k \in 1..Len(selected_videos) |->
                        [worker_id |-> k, video_info |-> selected_videos[k]]]
            /\ job_state' = [k \in 1..Len(parallel_tasks') |-> "pending"]
            /\ job_output' = [k \in 1..Len(parallel_tasks') |-> <<>>]
            /\ job_calls' = [k \in 1..Len(parallel_tasks') |-> 0]
            /\ results' = [k \in 1..Len(parallel_tasks') |-> None]
            /\ pc' = "enc_pool"
    /\ UNCHANGED <<input_files, probe_env, encode_env, probe_log, video_pool,
                   successful_results, now>>
    /\ UNCHANGED <<segVars, tlVars, bgVars, partVars, runVars, outVars,
                   fileVars, tmpVars, poolVars>>

(* A free pool process takes the next task and runs                        *)
(* process_video_full_path_ffmpeg up to the ffmpeg call (lines 108-152).   *)
StartJob ==
    /\ pc = "enc_pool"
    /\ Cardinality(RunningJobs) < Processes
    /\ \E k \in 1..Len(parallel_tasks) :
        /\ job_state[k] = "pending"
        /\ \A j \in 1..(k - 1) : job_state[j] # "pending"
        /\ job_state' = [job_state EXCEPT ![k] = "running"]
        /\ job_output' =
             [job_output EXCEPT
                 ![k] = <<"output",
                          OutputFilename(parallel_tasks[k].worker_id,
                                         parallel_tasks[k].video_info.filename,
                                         now)>>]
        /\ job_calls' = [job_calls EXCEPT ![k] = @ + 1]
    /\ UNCHANGED <<pc, input_files, probe_env, encode_env, probe_log,
                   video_pool, parallel_tasks, results, successful_results, now>>
    /\ UNCHANGED <<segVars, tlVars, bgVars, partVars, runVars, outVars,
                   fileVars, tmpVars, poolVars>>

(* The value process_video_full_path_ffmpeg returns (lines 156-179)        *)
ProcessResult(k, outcome) ==
    IF outcome = "ok"
    THEN [path |-> job_output[k],
          worker |-> parallel_tasks[k].worker_id,
          source_video |-> parallel_tasks[k].video_info.filename]
    ELSE None

(* The ffmpeg call of a job ends, by itself or by the timeout, and the job *)
(* returns (lines 152-179).                                                *)
FinishJob ==
    /\ pc = "enc_pool"
    /\ \E k \in RunningJobs :
        /\ job_state' = [job_state EXCEPT ![k] = "returned"]
        /\ results' =
             [results EXCEPT
                 ![k] = ProcessResult(
                            k, encode_env[parallel_tasks[k].video_info.file])]
    /\ UNCHANGED <<pc, input_files, probe_env, encode_env, probe_log,
                   video_pool, parallel_tasks, job_output, job_calls,
                   successful_results, now>>
    /\ UNCHANGED <<segVars, tlVars, bgVars, partVars, runVars, outVars,
                   fileVars, tmpVars, poolVars>>

(* A second passes while the pool works.                                   *)
Tick ==
    /\ pc = "enc_pool"
    /\ now < MaxClock
    /\ now' = now + 1
    /\ UNCHANGED <<pc, input_files, probe_env, encode_env, probe_log,
                   video_pool, parallel_tasks, job_state, job_output,
                   job_calls, results, successful_results>>
    /\ UNCHANGED <<segVars, tlVars, bgVars, partVars, runVars, outVars,
                   fileVars, tmpVars, poolVars>>

(* pool.map returns once every task has returned;                          *)
(* successful_results = [r for r in results if r] (lines 294-297)          *)
CollectResults ==
    /\ pc = "enc_pool"
    /\ \A k \in 1..Len(parallel_tasks) : job_state[k] = "returned"
    /\ successful_results' = SelectSeq(results, LAMBDA r : r # None)
    /\ pc' = "enc_done"
    /\ UNCHANGED <<input_files, probe_env, encode_env, probe_log, video_pool,
                   parallel_tasks, job_state, job_output, job_calls, results,
                   now>>
    /\ UNCHANGED <<segVars, tlVars, bgVars, partVars, runVars, outVars,
                   fileVars, tmpVars, poolVars>>

----------------------------------------------------------------------------
(* Initial states.                                                         *)

TimelineInit ==
    /\ timings = <<>>
    /\ t = 0
    /\ final_overlays = <<>>
    /\ audio_files_to_use = <<>>
    /\ audio_start = <<>>
    /\ narration_duration = 0
    /\ final_duration = 0
    /\ bg_duration = 0
    /\ prepared_bg_duration = 0
    /\ failed_chunk = 0
    /\ cap_warning = FALSE
    /\ exported_audio = <<>>
    /\ exported_duration = 0
    /\ written_files = <<>>
    /\ temp_files = {}
    /\ temp_folders = {temp_path}
    /\ disk = {}
    /\ cleanup_runs = 0

(* No story and no run: the state outside split_story_for_2min_limit and   *)
(* create_limited_videos.                                                  *)
NoStory ==
    /\ story = [title_words |-> 1, body |-> <<>>]
    /\ story_parts = <<>>

(* No processor of background videos.                                      *)
NoPool ==
    /\ video_files = <<>>
    /\ available_videos = <<>>
    /\ video_limit = 0
    /\ video_num = 0
    /\ combined_clips = <<>>
    /\ total_duration = 0
    /\ selected = <<>>
    /\ exported_clips = <<>>

(* No parallel encode run.                                                 *)
NoEncode ==
    /\ input_files = <<>>
    /\ probe_env = <<>>
    /\ encode_env = <<>>
    /\ probe_log = <<>>
    /\ video_pool = <<>>
    /\ parallel_tasks = <<>>
    /\ job_state = <<>>
    /\ job_output = <<>>
    /\ job_calls = <<>>
    /\ results = <<>>
    /\ successful_results = <<>>
    /\ now = 0

NoRun ==
    /\ load_outcome = "ok"
    /\ file_stories = <<>>
    /\ stories = <<>>
    /\ pool_size = 0
    /\ story_index = 0
    /\ video_counter = 0
    /\ bg_used = <<>>
    /\ part_num = 0
    /\ created_videos = <<>>
    /\ would_raise = <<>>

SplitInit(lengths, n, lo, hi) ==
    /\ pc = "split"
    /\ sentences \in {Tokenize(lens, 0) : lens \in SeqsUpTo(lengths, n)}
    /\ min_length = lo
    /\ max_length = hi
    /\ idx = 0
    /\ buffer = <<>>
    /\ chunks = <<>>

(* split_and_sync_chunks on its own, with the code's min_length and        *)
(* max_length.                                                             *)
InitSeg ==
    /\ SplitInit(SentenceLengths, MaxSentences, MinLengthValue, MaxLengthValue)
    /\ total_parts = 1
    /\ TimelineInit
    /\ NoStory
    /\ NoRun
    /\ NoPool
    /\ NoEncode

(* The accumulate/flush rule with min_words = 2 and max_words = 4.         *)
InitScenario ==
    /\ SplitInit(ScenarioLengths, MaxSentences, 2, 4)
    /\ total_parts = 1
    /\ TimelineInit
    /\ NoStory
    /\ NoRun
    /\ NoPool
    /\ NoEncode

NextSeg == SplitStep \/ SplitReturn

SpecSeg == InitSeg /\ [][NextSeg]_vars

SpecScenario == InitScenario /\ [][NextSeg]_vars

(* split_story_for_2min_limit on its own.                                  *)
Stories ==
    {[title_words |-> tw, body |-> b] :
        tw \in TitleWords,
        b \in {<<>>} \cup SeqsUpTo(BodyLengths, MaxBodySentences)}

NoPart ==
    /\ sentences = <<>>
    /\ min_length = MinLengthValue
    /\ max_length = MaxLengthValue
    /\ idx = 0
    /\ buffer = <<>>
    /\ chunks = <<>>
    /\ total_parts = 1
    /\ TimelineInit

InitPart ==
    /\ pc = "partition"
    /\ story \in Stories
    /\ story_parts = <<>>
    /\ NoPart
    /\ NoRun
    /\ NoPool
    /\ NoEncode

NextPart == SplitStory

SpecPart == InitPart /\ [][NextPart]_vars

(* len(f"{title}.".split()): the runs of non-blank characters              *)
TitleWordCount(title) ==
    LET txt == title \o <<".">>
    IN  Cardinality({i \in 1..Len(txt) :
                        txt[i] # " " /\ (i = 1 \/ txt[i - 1] = " ")})

RunStory(title, body) ==
    [title |-> title, title_words |-> TitleWordCount(title), body |-> body]

(* One run of main.  The story file holds up to MaxFileStories stories,    *)
(* of 1, 2 and 3 parts, some with the same title or the same filename      *)
(* base; would_raise tells for each part whether its render raises an      *)
(* error.                                                                  *)
RunStories ==
    {RunStory(<<>>, <<1>>),
     RunStory(<<"c", "a", "t">>, <<1>>),
     RunStory(<<"M", "y", " ", "c", "a", "t">>, <<230, 230>>),
     RunStory(<<"c", "a", "t">>, <<700, 700>>)}

LoadOutcomes == {"ok", "missing", "bad_suffix"}

PartKeys == (1..max_stories_total) \X (1..max_videos_per_story)

InitRun ==
    /\ pc = "run_load"
    /\ load_outcome \in LoadOutcomes
    /\ file_stories \in {<<>>} \cup SeqsUpTo(RunStories, MaxFileStories)
    /\ stories = <<>>
    /\ pool_size \in 0..MaxPool
    /\ story_index = 0
    /\ video_counter = 0
    /\ bg_used = <<>>
    /\ part_num = 0
    /\ created_videos = <<>>
    /\ would_raise \in [PartKeys -> BOOLEAN]
    /\ NoStory
    /\ NoPart
    /\ NoPool
    /\ NoEncode

NextRun ==
    \/ LoadStories
    \/ GetBackgroundVideos
    \/ BeginStory
    \/ BeginPart
    \/ RenderPart
    \/ RenderRaise
    \/ EndStory
    \/ EndRun

SpecRun == InitRun /\ [][NextRun]_vars

(* The same run with the part render taken step by step, user interrupts   *)
(* and the exit of the interpreter.                                        *)
NextTemp ==
    \/ LoadStories
    \/ GetBackgroundVideos
    \/ BeginStory
    \/ BeginPart
    \/ SynthesizeChunks
    \/ ExportSilence
    \/ RegisterSilence
    \/ ExportPart
    \/ RenderRaise
    \/ RenderRaiseLate
    \/ EndStory
    \/ EndRun
    \/ Interrupt
    \/ AtExit

SpecTemp == InitRun /\ [][NextTemp]_vars

(* One run of the no-repetition processor on a folder of up to             *)
(* MaxVideoFiles videos.                                                   *)
InitPool ==
    /\ pc = "pool_analyze"
    /\ video_files \in {<<>>} \cup SeqsUpTo(VideoDurations, MaxVideoFiles)
    /\ available_videos = <<>>
    /\ video_limit = 0
    /\ video_num = 0
    /\ combined_clips = <<>>
    /\ total_duration = 0
    /\ selected = <<>>
    /\ exported_clips = <<>>
    /\ NoPart
    /\ NoStory
    /\ NoRun
    /\ NoEncode

NextPool ==
    \/ AnalyzePool
    \/ BeginCombine
    \/ SelectVideo
    \/ SelectDone
    \/ ExportCombined

SpecPool == InitPool /\ [][NextPool]_vars

EncodeIdle ==
    /\ probe_log = <<>>
    /\ video_pool = <<>>
    /\ parallel_tasks = <<>>
    /\ job_state = <<>>
    /\ job_output = <<>>
    /\ job_calls = <<>>
    /\ results = <<>>
    /\ successful_results = <<>>
    /\ now = 0
    /\ NoPool
    /\ NoPart
    /\ NoStory
    /\ NoRun

(* The parallel encode of a folder of up to MaxEncodeFiles videos that     *)
(* ffprobe reads; ffmpeg ends the same way on all of them.                 *)
InitEncode ==
    /\ pc = "enc_analyze"
    /\ \E n \in 1..MaxEncodeFiles, pattern \in NamePatterns :
        /\ input_files = [i \in 1..n |-> FileNameAt(pattern, i)]
        /\ probe_env = [i \in 1..n |-> "ok_long"]
        /\ \E outcome \in EncodeOutcomes :
               encode_env = [i \in 1..n |-> outcome]
    /\ EncodeIdle

NextEncode ==
    \/ AnalyzeVideo
    \/ PrepareTasks
    \/ StartJob
    \/ FinishJob
    \/ Tick
    \/ CollectResults

SpecEncode == InitEncode /\ [][NextEncode]_vars

(* The same program on a folder of up to MaxProbeFiles videos, ffprobe and *)
(* ffmpeg ending in any way on each of them.                               *)
InitProbe ==
    /\ pc = "enc_analyze"
    /\ \E n \in 0..MaxProbeFiles :
        /\ input_files = [i \in 1..n |-> FileNameAt("mixed", i)]
        /\ probe_env \in [1..n -> ProbeOutcomes]
        /\ encode_env \in [1..n -> EncodeOutcomes]
        \* ffmpeg never runs on a video that ffprobe did not read
        /\ \A i \in 1..n :
               probe_env[i] \notin {"ok_long", "parse_ok"} => encode_env[i] = "ok"
    /\ EncodeIdle

SpecProbe == InitProbe /\ [][NextEncode]_vars

(* create_single_video_part on one story part, single or multi-part.       *)
Init ==
    /\ SplitInit(PartSentenceLengths, MaxPartSentences, MinLengthValue, MaxLengthValue)
    /\ total_parts \in 1..max_videos_per_story
    /\ TimelineInit
    /\ NoStory
    /\ NoRun
    /\ NoPool
    /\ NoEncode

Next ==
    \/ SplitStep
    \/ SplitReturn
    \/ TimingStep
    \/ TimingReturn
    \/ TimingFail
    \/ LoadBackground
    \/ PartIndicator
    \/ OverlayStep
    \/ Compose
    \/ Export

Spec == Init /\ [][Next]_vars

----------------------------------------------------------------------------
(* Properties of split_and_sync_chunks.                                    *)

SplitDone == pc # "split"

ChunkWords(c) == Len(chunks[c])

(* The sentence a chunk ends with: chunks are made of whole sentences and  *)
(* words are numbered by position, so it is the sentence with the chunk's  *)
(* last word as its own last word.                                         *)
LastSentenceWords(c) ==
    LET ch == chunks[c]
        k == CHOOSE j \in 1..Len(sentences) :
                 sentences[j][Len(sentences[j])] = ch[Len(ch)]
    IN  Len(sentences[k])

(* C6: the words of the returned chunks, concatenated in chunk order, are  *)
(* exactly the words of the input sentences in their original order.       *)
C6_SegmentationCoverage ==
    SplitDone => Flatten(chunks) = Flatten(sentences)

C6_Witness ==
    /\ SplitDone
    /\ Len(sentences) >= 3
    /\ Len(chunks) >= 2

(* C7 as stated: with min_words = 2 and max_words = 4 the sentences A, B,  *)
(* C, D give the two chunks "A B" and "C D".                               *)
ScenarioABCD == sentences = << <<1>>, <<2>>, <<3>>, <<4>> >>

C7_Original_TwoPairs ==
    (SplitDone /\ ScenarioABCD) => chunks = << <<1, 2>>, <<3, 4>> >>

(* C7 amended: with min_words = 2 and max_words = 4 the sentences A, B, C, *)
(* D give one chunk holding A, B, C and D: once the buffer holds two words *)
(* each further sentence still fits in max_words and is appended.          *)
C7_ScenarioOneChunk ==
    (SplitDone /\ ScenarioABCD) => chunks = << <<1, 2, 3, 4>> >>

C7_Witness ==
    /\ SplitDone
    /\ ScenarioABCD
    /\ min_length = 2
    /\ max_length = 4
    /\ Len(chunks) = 1

(* C8 as stated: every returned chunk has at most max_words words.         *)
C8_Original_MaxWords ==
    SplitDone => \A c \in 1..Len(chunks) : ChunkWords(c) <= max_length

(* C8 amended: a returned chunk has more than max_words words only when    *)
(* its last sentence was appended to a buffer still below min_words; a     *)
(* chunk whose buffer had reached min_words before its last sentence has   *)
(* at most max_words words.                                                *)
C8_MaxWordsOnceMinReached ==
    SplitDone =>
        \A c \in 1..Len(chunks) :
            \/ ChunkWords(c) <= max_length
            \/ ChunkWords(c) - LastSentenceWords(c) < min_length

C8_Witness ==
    /\ SplitDone
    /\ \E c \in 1..Len(chunks) : ChunkWords(c) > max_length
    /\ \E c \in 1..Len(chunks) :
           /\ ChunkWords(c) - LastSentenceWords(c) >= min_length
           /\ ChunkWords(c) = max_length

(* C9: every returned chunk except possibly the last has at least          *)
(* min_words words.                                                        *)
C9_MinWordsExceptLast ==
    SplitDone =>
        \A c \in 1..(Len(chunks) - 1) : ChunkWords(c) >= min_length

C9_Witness ==
    /\ SplitDone
    /\ Len(chunks) >= 2
    /\ ChunkWords(Len(chunks)) < min_length

(* C10: a text with fewer than min_words words gives exactly one chunk,    *)
(* holding all its words.                                                  *)
C10_ShortTextOneChunk ==
    (SplitDone /\ Len(Flatten(sentences)) < min_length) =>
        /\ Len(chunks) = 1
        /\ chunks[1] = Flatten(sentences)

C10_Witness ==
    /\ SplitDone
    /\ Len(sentences) >= 2
    /\ Len(Flatten(sentences)) < min_length
    /\ Len(chunks) = 1

----------------------------------------------------------------------------
(* Properties of the timeline of one rendered part.                        *)

Composed == pc = "composed"

ChunkIndexes == 1..Len(timings)

(* The overlay made for chunk i: the part indicator, when there is one,    *)
(* precedes the chunks' overlays in final_overlays.                        *)
OverlayOf(i) == final_overlays[i + (IF total_parts > 1 THEN 1 ELSE 0)]

(* The narration start time used to place chunk i's caption.               *)
NarrationStart(i) == StartTime(timings[i])

CaptionEnd(i) == OverlayOf(i).start + OverlayOf(i).duration

(* C1 as stated: for every chunk the caption starts text_start_delay       *)
(* after the offset at which the chunk's audio begins in the exported      *)
(* audio track.                                                            *)
C1_CaptionAudioSync ==
    Composed =>
        \A i \in ChunkIndexes :
            OverlayOf(i).start - audio_start[i] = text_start_delay

(* C2 as stated: the concatenated narration audio lasts the final value of *)
(* the timing cursor t minus one transition gap.                           *)
C2_NarrationLength ==
    Composed => narration_duration = t - text_transition_gap

(* C3: the recorded narration start times begin at 0 and each chunk starts *)
(* no earlier than the previous chunk's start plus its audio duration.     *)
C3_NarrationNonOverlap ==
    timings # <<>> =>
        /\ timings[1].start = 0
        /\ \A i \in 1..(Len(timings) - 1) :
               timings[i + 1].start >=
                   timings[i].start + timings[i].audio_duration

C3_Witness ==
    /\ pc = "indicator"
    /\ Len(timings) >= 3
    /\ \A i \in ChunkIndexes : timings[i].audio_duration = 4000

(* C4 as stated: every caption lasts at most audio_duration x              *)
(* duration_factor (plus an epsilon of 1 ms) and at least the floor.       *)
C4_Original_CaptionBound ==
    Composed =>
        \A i \in ChunkIndexes :
            /\ OverlayOf(i).duration <=
                   TextDuration(timings[i].audio_duration) + 1
            /\ OverlayOf(i).duration >= CaptionFloor

(* C4 amended: every caption lasts at least the floor and at most the      *)
(* larger of the floor and audio_duration x duration_factor; when the      *)
(* product is below the floor the caption lasts exactly the floor, longer  *)
(* than the product.                                                       *)
C4_CaptionBoundWithFloor ==
    Composed =>
        \A i \in ChunkIndexes :
            /\ OverlayOf(i).duration >= CaptionFloor
            /\ OverlayOf(i).duration <=
                   Max(CaptionFloor, TextDuration(timings[i].audio_duration))

C4_Witness ==
    /\ Composed
    /\ \E i \in ChunkIndexes :
           /\ timings[i].audio_duration < CaptionFloor
           /\ OverlayOf(i).duration > TextDuration(timings[i].audio_duration)
    /\ \E i \in ChunkIndexes : OverlayOf(i).duration = 4000

(* C5: with duration_factor <= 1 a caption ends at most                    *)
(* max(text_start_delay, 0) after the end of its own narration clip        *)
(* (narration start + audio duration).                                     *)
C5_CaptionWithinNarration ==
    (Composed /\ text_duration_factor <= 100) =>
        \A i \in ChunkIndexes :
            CaptionEnd(i) - (NarrationStart(i) + timings[i].audio_duration)
                <= Max(text_start_delay, 0)

C5_Witness ==
    /\ Composed
    /\ total_parts > 1
    /\ Len(timings) >= 2
    /\ timings[2].audio_duration < CaptionFloor
    /\ timings[1].audio_duration > CaptionFloor

(* C27: with duration_factor <= 1 and transition gap >= 0 the caption      *)
(* windows of a rendered part do not overlap: each chunk's caption ends no *)
(* later than the next chunk's caption starts, also for audio shorter than *)
(* the caption floor, and in a multi-part video the part indicator ends no *)
(* later than the first chunk's caption starts.                            *)
C27_CaptionsDoNotOverlap ==
    (Composed /\ text_duration_factor <= 100 /\ text_transition_gap >= 0) =>
        /\ \A i \in 1..(Len(timings) - 1) :
               CaptionEnd(i) <= OverlayOf(i + 1).start
        /\ total_parts > 1 =>
               final_overlays[1].start + final_overlays[1].duration
                   <= OverlayOf(1).start

C27_Witness ==
    /\ Composed
    /\ total_parts > 1
    /\ Len(timings) = 3
    /\ timings[1].audio_duration = 0
    /\ timings[2].audio_duration = 50
    /\ final_overlays[1].chunk = 0

(* C29 as stated: every caption of a rendered part, the part indicator    *)
(* included, starts at a time >= 0 and ends at a time <= the final output  *)
(* duration.                                                               *)
C29_CaptionsInsideOutput ==
    Composed =>
        \A k \in 1..Len(final_overlays) :
            /\ final_overlays[k].start >= 0
            /\ final_overlays[k].start + final_overlays[k].duration
                   <= final_duration

----------------------------------------------------------------------------
(* Properties of split_story_for_2min_limit.                               *)

Partitioned == pc = "partitioned"

StoryWords == story.title_words + SumSeq(story.body)

(* floor(estimate / max_duration) + 1                                      *)
UnclampedParts ==
    ((StoryWords * 60) \div (max_video_duration * words_per_minute)) + 1

(* C11: for a story split into N > 1 parts, the parts' story sentences     *)
(* concatenated in part order are the body's sentences, each exactly once  *)
(* and in order.                                                           *)
C11_PartitionCoverage ==
    (Partitioned /\ Len(story_parts) > 1) =>
        Flatten([k \in 1..Len(story_parts) |-> story_parts[k].sentences])
            = [j \in 1..Len(story.body) |-> j]

C11_Witness ==
    /\ Partitioned
    /\ Len(story_parts) = 3
    /\ Len(story.body) = 4
    /\ Len(story_parts[3].sentences) = 2

(* C12: one part when the estimate is at most max_duration, otherwise      *)
(* min(floor(estimate / max_duration) + 1, max_parts) parts; never more    *)
(* than max_parts.                                                         *)
C12_PartCount ==
    Partitioned =>
        /\ Len(story_parts) =
             IF StoryWords * 60 <= max_video_duration * words_per_minute
             THEN 1
             ELSE Min(UnclampedParts, max_videos_per_story)
        /\ Len(story_parts) <= max_videos_per_story

C12_Witness ==
    /\ Partitioned
    /\ Len(story.body) < Len(story_parts)
    /\ UnclampedParts > max_videos_per_story
    /\ Len(story_parts) = max_videos_per_story

(* C13 as stated: when the part count was not clamped, every part's own    *)
(* estimate (title prefix included) is at most max_duration.               *)
C13_Original_PartsWithinCap ==
    (Partitioned /\ Len(story_parts) > 1
        /\ UnclampedParts <= max_videos_per_story) =>
        \A k \in 1..Len(story_parts) :
            story_parts[k].words * 60 <= max_video_duration * words_per_minute

(* C13 amended: when the part count was not clamped, every part's own      *)
(* estimate is at most the whole story's estimate; it can exceed           *)
(* max_duration, the parts being cut by sentence count.                    *)
C13_PartsWithinStoryEstimate ==
    (Partitioned /\ Len(story_parts) > 1
        /\ UnclampedParts <= max_videos_per_story) =>
        \A k \in 1..Len(story_parts) :
            story_parts[k].words * 60 <= StoryWords * 60

C13_Witness ==
    /\ Partitioned
    /\ Len(story_parts) = 2
    /\ UnclampedParts = 2
    /\ story_parts[2].words * 60 > max_video_duration * words_per_minute

(* C30 as stated: when a story is split into N > 1 parts every returned    *)
(* part holds at least one sentence of the body besides the title prefix.  *)
C30_PartsHaveBodySentence ==
    (Partitioned /\ Len(story_parts) > 1) =>
        \A k \in 1..Len(story_parts) : story_parts[k].sentences # <<>>

----------------------------------------------------------------------------
(* Properties of the background clip, the output duration and the part     *)
(* indicator of one rendered part.                                         *)

(* Duration of the exported audio: the narration plus, in a multi-part     *)
(* video, the silence before it.                                           *)
FullAudioDuration ==
    narration_duration + (IF total_parts > 1 THEN SilenceClipDuration ELSE 0)

(* C15: the prepared background clip is at least as long as the final      *)
(* output duration (narration audio plus any part-indicator silence).      *)
C15_BackgroundCoversOutput ==
    Composed =>
        /\ prepared_bg_duration >= final_duration
        /\ prepared_bg_duration >= FullAudioDuration

(* C16: the final output duration is the minimum of the narration total    *)
(* duration and the prepared background clip's duration.                   *)
C16_FinalDurationIsMin ==
    Composed => final_duration = Min(FullAudioDuration, prepared_bg_duration)

(* C17: in a multi-part video the part indicator caption starts at time 0  *)
(* and lasts part_indicator_duration; in a single-part video there is no   *)
(* indicator caption and no start time is shifted.                         *)
C17_PartIndicatorAtZero ==
    Composed =>
        /\ total_parts > 1 =>
              /\ final_overlays[1].chunk = 0
              /\ final_overlays[1].start = 0
              /\ final_overlays[1].duration = part_indicator_duration
        /\ total_parts = 1 =>
              /\ \A k \in 1..Len(final_overlays) : final_overlays[k].chunk # 0
              /\ \A i \in ChunkIndexes : NarrationStart(i) = timings[i].start

(* C19: when the synthesis or measurement of one chunk fails, the part is  *)
(* not abandoned and only that chunk is missing from the timeline.         *)
C19_ChunkFailureIsSoft ==
    failed_chunk # 0 =>
        /\ pc # "raised"
        /\ \A i \in ChunkIndexes : timings[i].chunk # failed_chunk
        /\ Composed =>
              {timings[i].chunk : i \in ChunkIndexes}
                  = (1..Len(chunks)) \ {failed_chunk}

Exported == pc = "exported"

(* C22 as stated: a part whose final duration exceeds max_video_duration   *)
(* is exported with the warning only: the exported audio holds every       *)
(* chunk's audio in full, and the exported duration equals the full audio  *)
(* duration.                                                               *)
C22_OverLimitStillExported ==
    (Exported /\ final_duration > max_video_duration * 1000) =>
        /\ cap_warning
        /\ Len(exported_audio) = Len(chunks)
        /\ \A i \in ChunkIndexes :
               exported_audio[i] = timings[i].audio_duration
        /\ exported_duration = FullAudioDuration

----------------------------------------------------------------------------
(* Properties of the temporary audio files.                                *)

RunOver == MainReturned \/ pc = "exited"

----------------------------------------------------------------------------
(* Properties of the no-repetition processor.                              *)

PoolPaths == {available_videos[i].path : i \in 1..Len(available_videos)}

(* C23: within one run each source video is taken from the pool at most    *)
(* once, whether it was used whole, used partially or rejected: a selected *)
(* video is never selected again and is no longer in the pool, the pool    *)
(* and the selected videos stay disjoint, and once built the pool only     *)
(* shrinks.                                                                *)
C23_NoRepetition ==
    /\ [](\A i, j \in 1..Len(selected) : i # j => selected[i] # selected[j])
    /\ [](\A i \in 1..Len(selected) : selected[i] \notin PoolPaths)
    /\ [](Cardinality(PoolPaths) = Len(available_videos))
    /\ [][pc # "pool_analyze" => PoolPaths' \subseteq PoolPaths]_vars

C23_Witness ==
    /\ pc = "pool_done"
    /\ Len(exported_clips) = 2
    /\ Len(selected) = 3
    /\ available_videos = <<>>

(* C24 as stated: every exported combined clip lasts exactly               *)
(* target_duration.                                                        *)
C24_ExactTargetDuration ==
    \A k \in 1..Len(exported_clips) : exported_clips[k] = target_duration

----------------------------------------------------------------------------
(* Properties of a run.                                                    *)

RunEnded == pc \in {"run_done", "run_aborted", "run_exit"}

(* The (story index, part number) pairs of the stories of the story file   *)
(* and the output file each of them is given.                              *)
FileParts ==
    {ip \in (1..MaxFileStories) \X (1..max_videos_per_story) :
        /\ ip[1] <= Len(file_stories)
        /\ ip[2] <= Len(split_story_for_2min_limit(file_stories[ip[1]]))}

FilePartOutput(ip) ==
    LET st == file_stories[ip[1]]
    IN  OutputFile(generate_smart_filename(
            Take(st.title, 120), ip[1], ip[2],
            Len(split_story_for_2min_limit(st))))

(* C28: one output file is written per rendered part, and two different    *)
(* (story index, part number) pairs never get the same output filename,    *)
(* whatever the titles (identical, empty, single-part with multi-part):    *)
(* no export of a run overwrites another.                                  *)
C28_DistinctOutputFiles ==
    /\ Len(written_files) = Len(created_videos)
    /\ \A i, j \in 1..Len(written_files) :
           i # j => written_files[i] # written_files[j]
    /\ \A a, b \in FileParts :
           a # b => FilePartOutput(a) # FilePartOutput(b)

C28_Witness ==
    /\ pc = "run_done"
    /\ Len(written_files) = 3
    /\ Len(file_stories) = 2
    /\ file_stories[1].title = file_stories[2].title
    /\ Len(split_story_for_2min_limit(file_stories[2])) = 1

(* C14: the k-th render (from 0) uses pool[k mod |pool|]; the counter      *)
(* grows by one per render, so any |pool| consecutive renders use          *)
(* pairwise distinct backgrounds.                                          *)
C14_RoundRobinBackground ==
    /\ video_counter = Len(bg_used)
    /\ \A k \in 1..Len(bg_used) : bg_used[k] = (k - 1) % pool_size
    /\ \A i, j \in 1..Len(bg_used) :
           (i < j /\ j - i < pool_size) => bg_used[i] # bg_used[j]

C14_Witness ==
    /\ pc = "run_done"
    /\ pool_size = 2
    /\ bg_used = <<0, 1, 0>>
    /\ video_counter = 3

(* C18: when the render of a part raises an error the run goes on: every   *)
(* part of the story that would succeed on its own is rendered.            *)
C18_PartFailureIsSkipped ==
    (RunEnded /\ story_index > 0) =>
        \A p \in 1..Len(story_parts) :
            ~would_raise[<<story_index, p>>] =>
                \E k \in 1..Len(created_videos) :
                    created_videos[k] = <<story_index, p>>

(* C20: with an empty background folder or a story file that cannot be     *)
(* loaded no part render starts: the cycling counter stays 0, no           *)
(* background is selected and no output is created.                        *)
C20_FatalStartupNoRender ==
    (load_outcome # "ok" \/ pool_size = 0) =>
        /\ video_counter = 0
        /\ bg_used = <<>>
        /\ part_num = 0
        /\ story_parts = <<>>
        /\ created_videos = <<>>
        /\ pc \in {"run_load", "run_backgrounds", "run_done", "run_exit"}

C20_Witness ==
    /\ pc = "run_exit"
    /\ pool_size = 0
    /\ Len(stories) >= 1
    /\ video_counter = 0

----------------------------------------------------------------------------
(* The parallel encode variant.                                            *)

Tasks == 1..Len(parallel_tasks)

StartedJobs == {k \in Tasks : job_state[k] # "pending"}

(* C25: at most 6 encode jobs run at the same time, every two jobs of a    *)
(* run read different source videos, and every two started jobs write      *)
(* different output paths, whatever the source filenames (names with the   *)
(* same first 15 characters included) and also when the jobs start in the  *)
(* same second.                                                            *)
C25_JobsShareNoResource ==
    /\ Cardinality(RunningJobs) <= 6
    /\ \A j, k \in Tasks :
           j # k => parallel_tasks[j].video_info.path
                        # parallel_tasks[k].video_info.path
    /\ \A j, k \in StartedJobs : j # k => job_output[j] # job_output[k]
    /\ \A j, k \in StartedJobs :
           job_output[j] # parallel_tasks[k].video_info.path

(* Seven videos whose names share their first 15 characters: six jobs run, *)
(* all started in the same second, and the seventh waits.                  *)
C25_Witness ==
    /\ pc = "enc_pool"
    /\ Len(parallel_tasks) = 7
    /\ Cardinality(RunningJobs) = 6
    /\ job_state[7] = "pending"
    /\ now = 0
    /\ \A j, k \in Tasks :
           CleanName(parallel_tasks[j].video_info.filename)
               = CleanName(parallel_tasks[k].video_info.filename)

PoolFiles == {video_pool[p].file : p \in 1..Len(video_pool)}

SuccessfulSources ==
    {successful_results[r].source_video : r \in 1..Len(successful_results)}

(* C26: a probe or transcode call that timed out is the last call made for *)
(* its video, a video whose probe timed out is not in the pool, a video    *)
(* whose transcode timed out has no entry in the successful results, and   *)
(* the other videos fare as they do without the timeout: the pool holds    *)
(* the videos probed at 30 s or more, the successful results those of      *)
(* them that ffmpeg encoded.                                               *)
C26_TimeoutSkipsOnlyThatVideo ==
    /\ \A i \in 1..Len(probe_log) :
           /\ \A c \in 1..Len(probe_log[i]) :
                  probe_log[i][c] = "timeout" => c = Len(probe_log[i])
           /\ probe_env[i] \in {"timeout", "parse_timeout"} => i \notin PoolFiles
           /\ probe_env[i] \in {"ok_long", "parse_ok"} => i \in PoolFiles
    /\ \A k \in Tasks :
           /\ job_calls[k] <= 1
           /\ job_state[k] = "returned"
                  => (results[k] # None
                        <=> encode_env[parallel_tasks[k].video_info.file] = "ok")
    /\ pc = "enc_done" =>
           /\ \A k \in Tasks : job_calls[k] = 1
           /\ SuccessfulSources =
                  {input_files[i] : i \in {f \in PoolFiles : encode_env[f] = "ok"}}
           /\ Len(successful_results) = Cardinality(SuccessfulSources)

(* The probe of the first video and the transcode of the second time out,  *)
(* the third video is encoded.                                             *)
C26_Witness ==
    /\ pc = "enc_done"
    /\ Len(input_files) = 3
    /\ probe_env[1] = "timeout"
    /\ probe_env[2] = "ok_long"
    /\ encode_env[2] = "timeout"
    /\ Len(successful_results) = 1
    /\ successful_results[1].source_video = input_files[3]
============================================================================
